---------------------------- MODULE Spec2Model ----------------------------
(***************************************************************************)
(* Worker runtime of osom_api (src/osom_api/apps/worker/context.py).       *)
(*                                                                         *)
(* WorkerContext.main is one asyncio task.  Code between two awaits runs   *)
(* without interleaving, so every action below is the completion of one    *)
(* awaited call (with the outcome the collaborator produced) followed by   *)
(* all the synchronous code up to the next await.  pc names the await the  *)
(* task is suspended at.  The subscription callbacks on_mq_connect and     *)
(* on_mq_subscribe run on the same event loop and interleave at awaits.    *)
(***************************************************************************)
EXTENDS Integers, Sequences, FiniteSets, TLC

(***************************************************************************)
(* Bounds of the model.                                                    *)
(***************************************************************************)
MaxIter == 2        \* calls of polling_iter that start
MaxFiles == 2       \* files attached to one Request / one Response
MaxSubs == 2        \* messages delivered to on_mq_subscribe

(***************************************************************************)
(* Paths (osom_api.paths) and their byte encoding (encode_path).           *)
(***************************************************************************)
MQ_BROADCAST_PATH == "/osom/api/broadcast"
MQ_REGISTER_WORKER_PATH == "/osom/api/register/worker"
MQ_REGISTER_WORKER_REQUEST_PATH == "/osom/api/register/worker/request"
ModulePath == "/osom/api/worker/module"
ForeignPath == "/osom/api/worker/foreign"

encode_path(path) == <<"bytes", path>>

(***************************************************************************)
(* Exceptions: a kind and the text str(e) yields.                          *)
(***************************************************************************)
Exc(kind, msg) == [kind |-> kind, msg |-> msg]
NoExc == Exc("none", "")

PollingTimeoutError == Exc("PollingTimeoutError", "Blocking Right POP operation timeout")
PacketLoadError == Exc("PacketLoadError", "Packet decoding fail")
NoMessageIdError == Exc("NoMessageIdError", "Message UUID does not exist")
CommandRuntimeError == Exc("CommandRuntimeError", "A command runtime error was detected")
InvalidMessageIdError == Exc("InvalidMessageIdError", "The UUID in the request message and the UUID in the response message must be the same")
PacketDumpError == Exc("PacketDumpError", "Response packet encoding fail")
KeyCheckError == Exc("AssertionError", "")
BufferError == Exc("BufferError", "Empty file content")
\* what an awaited collaborator call can raise: a failure of the collaborator,
\* or the cancellation of the main task delivered at that await
CollaboratorError == Exc("CollaboratorError", "collaborator failure")
CancelledError == Exc("CancelledError", "")
AwaitFaults == {CollaboratorError, CancelledError}
AwaitOutcomes == {NoExc} \cup AwaitFaults

\* osom_api.exceptions: the classes start_polling's "except OsomApiError" takes
IsOsomApiError(e) ==
    e.kind \in {"PollingTimeoutError", "PacketLoadError", "NoMessageIdError",
                "CommandRuntimeError", "InvalidMessageIdError"}

(***************************************************************************)
(* Wire structures.  A File is reduced to its identity and whether its     *)
(* content is present; idx is its position in the message.                 *)
(***************************************************************************)
None == "None"
Uuids == {"u1", "u2"}
FileSeqs == UNION {[1..n -> BOOLEAN] : n \in 0..MaxFiles}

MsgRequest(msg_uuid, files) == [msg_uuid |-> msg_uuid, files |-> files]
RequestUuids == {"", "u1", "u2"}
Requests == {MsgRequest(u, fs) : u \in RequestUuids, fs \in FileSeqs}
NoRequest == MsgRequest(None, <<>>)

MsgResponse(msg_uuid, error, files, src, enc) ==
    [msg_uuid |-> msg_uuid, error |-> error, files |-> files,
     src |-> src, encodable |-> enc]
\* what Module.run can return
HandlerErrors == {None}
HandlerResponses ==
    {MsgResponse(u, e, fs, "handler", enc) :
        u \in Uuids, e \in HandlerErrors, fs \in FileSeqs,
        enc \in BOOLEAN}
NoResponse == MsgResponse(None, None, <<>>, "none", FALSE)

\* payloads found on the request queue
Junk == [tag |-> "junk"]
MsgRequest_encode(r) == [tag |-> "MsgRequest", body |-> r]
Payloads == {Junk} \cup {MsgRequest_encode(r) : r \in Requests}
\* what call i of polling_iter can find: a msg_uuid names one request, so the
\* request of one call does not carry the msg_uuid of the call before it
QueueUuid(i) == IF i % 2 = 1 THEN "u1" ELSE "u2"
Queued(i) ==
    {p \in Payloads :
        p = Junk \/ p.body.msg_uuid \in {"", QueueUuid(i)}}

\* MsgRequest.decode: the Request, or a failure
MsgRequest_decodable(data) == data.tag = "MsgRequest"
MsgRequest_decode(data) == data.body

\* MsgResponse.encode: the bytes, or a failure
MsgResponse_encodable(r) == r.encodable
MsgResponse_encode(r) ==
    [tag |-> "MsgResponse", msg_uuid |-> r.msg_uuid, error |-> r.error,
     files |-> r.files]

\* MsgRequest.get_response_path
get_response_path(r) == <<ModulePath, "response", r.msg_uuid>>

\* MsgWorker(...).encode() of the module's static metadata
MsgWorker_encode(w) == [tag |-> "MsgWorker", body |-> w]
ModuleDescriptor == [name |-> "module", path |-> ModulePath]

\* floor(config.redis_expire_medium), the config value given in tenths
floor(tenths) == tenths \div 10
ExpireChoices == {605}

VARIABLES
    pc,                 \* the await main() is suspended at
    exc,                \* the exception propagating out of main()
    life,               \* open/close calls completed, in order
    redis_expire_medium,\* config, in tenths of a second
    register_packet,    \* self._register_packet
    connected,          \* on_mq_connect ran
    subs,               \* messages delivered to on_mq_subscribe so far
    channel,            \* on_mq_subscribe's channel, of the latest message
    pubs,               \* _mq.publish calls made, in order
    iter,               \* polling_iter calls started
    history,            \* how each finished polling_iter call ended
    packet,             \* polling_iter's packet, what brpop_bytes returned
    request,            \* polling_iter's request
    response,           \* on_message's response
    reply,              \* polling_iter's response (the one encoded)
    caught,             \* the exception polling_iter caught from on_message
    flow, fidx,         \* upload_msg_files: the flow and the current file
    ops,                \* storage calls completed for the current packet
    runs,               \* Module.run calls completed for the current packet
    pushed              \* _mq.lpush_bytes calls completed for the current packet

lifevars == <<pc, exc, life>>
regvars == <<register_packet, connected, subs, channel, pubs>>
itervars == <<iter, history, packet, request, response, reply, caught, flow, fidx,
              ops, runs, pushed>>
vars == <<lifevars, redis_expire_medium, regvars, itervars>>

Init ==
    /\ pc = "mq_open"
    /\ exc = NoExc
    /\ life = <<>>
    /\ redis_expire_medium \in ExpireChoices
    /\ register_packet = MsgWorker_encode(ModuleDescriptor)
    /\ connected = FALSE
    /\ subs = 0
    /\ channel = None
    /\ pubs = <<>>
    /\ iter = 0
    /\ history = <<>>
    /\ packet = None
    /\ request = NoRequest
    /\ response = NoResponse
    /\ reply = NoResponse
    /\ caught = NoExc
    /\ flow = "none"
    /\ fidx = 0
    /\ ops = <<>>
    /\ runs = 0
    /\ pushed = <<>>

(***************************************************************************)
(* Fragments of polling_iter / on_message / start_polling shared by the    *)
(* actions.  Each one fixes pc, exc, history, reply, caught, flow, fidx.   *)
(***************************************************************************)
ctlvars == <<pc, exc, history, reply, caught, flow, fidx>>

\* (variant: the "except OsomApiError" clause is missing)
start_polling_catches_narrow(e) ==
    \/ e.kind = "NoMessageIdError"
    \/ e.kind = "CommandRuntimeError"

\* (variant: a final "except Exception" clause takes everything else)
start_polling_catches_broad(e) == TRUE

\* start_polling's except clauses
start_polling_catches(e) ==
    \/ e.kind = "NoMessageIdError"
    \/ e.kind = "CommandRuntimeError"
    \/ IsOsomApiError(e)

\* the log of endings keeps the latest finished call in full when the next
\* call starts; what ended before that is reduced to Earlier
Earlier == [end |-> "earlier", at |-> "earlier", faulted |-> FALSE,
            msg_uuid |-> None]
Trim(h) == [i \in 1..Len(h) |-> IF i = Len(h) THEN h[i] ELSE Earlier]

\* polling_iter ends, by return (e = NoExc) or by raising e into start_polling;
\* c is what polling_iter caught from on_message in this call
start_polling(e, c) ==
    /\ history' = Append(Trim(history), [end |-> e.kind, at |-> pc,
                                         faulted |-> c # NoExc,
                                         msg_uuid |-> request'.msg_uuid])
    /\ IF e = NoExc \/ start_polling_catches(e)
         THEN pc' = "brpop" /\ exc' = exc
         ELSE pc' = "module_close" /\ exc' = e

\* (variant: an encode fault is logged and the call returns)
polling_iter_encode_swallow(resp, c) ==
    /\ reply' = resp
    /\ caught' = c
    /\ flow' = "none"
    /\ fidx' = 0
    /\ IF MsgResponse_encodable(resp)
         THEN pc' = "lpush" /\ exc' = exc /\ history' = history
         ELSE start_polling(NoExc, c)

\* polling_iter from "response.encode()" to the lpush await
polling_iter_encode(resp, c) ==
    /\ reply' = resp
    /\ caught' = c
    /\ flow' = "none"
    /\ fidx' = 0
    /\ IF MsgResponse_encodable(resp)
         THEN pc' = "lpush" /\ exc' = exc /\ history' = history
         ELSE start_polling(PacketDumpError, c)

\* (variant: the fault of on_message is logged and raised again)
polling_iter_except_reraise(e) ==
    /\ reply' = NoResponse
    /\ caught' = e
    /\ flow' = "none"
    /\ fidx' = 0
    /\ start_polling(e, e)

\* (variant: the Response built for the fault carries no error)
polling_iter_except_noerror(e) ==
    polling_iter_encode(
        MsgResponse(request'.msg_uuid, None, <<>>, "runtime", TRUE), e)

\* polling_iter's "except BaseException" around on_message
polling_iter_except(e) ==
    polling_iter_encode(
        MsgResponse(request'.msg_uuid, e.msg, <<>>, "runtime", TRUE), e)

\* (variant: the response is returned without the comparison)
on_message_check_skip == polling_iter_encode(response', NoExc)

\* on_message after upload_msg_response: the msg_uuid comparison and return
on_message_check ==
    IF response'.msg_uuid # request'.msg_uuid
      THEN polling_iter_except(InvalidMessageIdError)
      ELSE polling_iter_encode(response', NoExc)

\* (variant: upload_msg_file does not look at the content before uploading)
upload_msg_files_unchecked(i, fl, files) ==
    IF i > Len(files)
      THEN IF fl = "request"
             THEN /\ pc' = "run"
                  /\ flow' = "none"
                  /\ fidx' = 0
                  /\ UNCHANGED <<exc, history, reply, caught>>
             ELSE on_message_check
      ELSE /\ pc' = "upload_data"
           /\ flow' = fl
           /\ fidx' = i
           /\ UNCHANGED <<exc, history, reply, caught>>

\* upload_msg_files: the loop, entered at file i of files, up to the next await
upload_msg_files(i, fl, files) ==
    IF i > Len(files)
      THEN IF fl = "request"
             THEN /\ pc' = "run"
                  /\ flow' = "none"
                  /\ fidx' = 0
                  /\ UNCHANGED <<exc, history, reply, caught>>
             ELSE on_message_check
      ELSE IF ~files[i]
             THEN polling_iter_except(BufferError)
             ELSE /\ pc' = "upload_data"
                  /\ flow' = fl
                  /\ fidx' = i
                  /\ UNCHANGED <<exc, history, reply, caught>>

\* the message whose files upload_msg_files is walking
FlowMsg == IF flow = "request" THEN request ELSE response
Op(op, fl, i, uuid, out) ==
    [op |-> op, flow |-> fl, idx |-> i, msg_uuid |-> uuid, ok |-> out = NoExc]

(***************************************************************************)
(* main(): open_common_context and open_module                             *)
(***************************************************************************)
OpenStep(at, name, next) ==
    /\ pc = at
    /\ \E out \in AwaitOutcomes :
         IF out = NoExc
           THEN /\ life' = Append(life, name)
                /\ pc' = next
                /\ exc' = exc
           ELSE /\ life' = life
                /\ pc' = "done"
                /\ exc' = out
    /\ UNCHANGED <<redis_expire_medium, regvars, itervars>>

mq_open == OpenStep("mq_open", "mq.open", "db_open")
db_open == OpenStep("db_open", "db.open", "s3_open")
s3_open == OpenStep("s3_open", "s3.open", "module_open")
open_module == OpenStep("module_open", "module.open", "brpop")


(***************************************************************************)
(* The broker client (BaseContext) calls on_mq_connect once, when the      *)
(* startup sequence is through; the poll loop's first pop completes after  *)
(* that.                                                                   *)
(***************************************************************************)
on_mq_connect_due == pc = "brpop" /\ iter = 0 /\ ~connected
first_pop_due == connected

(***************************************************************************)
(* polling_iter: the brpop_bytes await completes                           *)
(***************************************************************************)
\* a new polling_iter call has its own locals; the per-call records restart
polling_iter_locals ==
    /\ response' = NoResponse
    /\ reply' = NoResponse
    /\ caught' = NoExc
    /\ flow' = "none"
    /\ fidx' = 0
    /\ ops' = <<>>
    /\ runs' = 0
    /\ pushed' = <<>>

\* brpop_bytes raised (broker failure or cancellation): nothing catches it
brpop_raise ==
    /\ pc = "brpop"
    /\ first_pop_due
    /\ iter < MaxIter
    /\ iter' = iter + 1
    /\ polling_iter_locals
    /\ packet' = None
    /\ request' = NoRequest
    /\ \E e \in AwaitFaults : start_polling(e, NoExc)
    /\ UNCHANGED <<life, redis_expire_medium, regvars>>

\* brpop_bytes returned None after the timeout
brpop_timeout ==
    /\ pc = "brpop"
    /\ first_pop_due
    /\ iter < MaxIter
    /\ iter' = iter + 1
    /\ polling_iter_locals
    /\ packet' = None
    /\ request' = NoRequest
    /\ start_polling(PollingTimeoutError, NoExc)
    /\ UNCHANGED <<life, redis_expire_medium, regvars>>

\* (variant: the decoder's own exception escapes, nothing wraps it)
polling_iter_decode_unwrapped(recv_data) ==
    IF ~MsgRequest_decodable(recv_data)
      THEN /\ request' = NoRequest
           /\ start_polling(Exc("ValueError", "bad packet"), NoExc)
      ELSE /\ request' = MsgRequest_decode(recv_data)
           /\ IF request'.msg_uuid = ""
                THEN start_polling(NoMessageIdError, NoExc)
                ELSE /\ pc' = "insert_msg"
                     /\ exc' = exc
                     /\ history' = Trim(history)

\* (variant: the msg_uuid test is missing)
polling_iter_decode_anyuuid(recv_data) ==
    IF ~MsgRequest_decodable(recv_data)
      THEN /\ request' = NoRequest
           /\ start_polling(PacketLoadError, NoExc)
      ELSE /\ request' = MsgRequest_decode(recv_data)
           /\ pc' = "insert_msg"
           /\ exc' = exc
           /\ history' = Trim(history)

\* polling_iter from MsgRequest.decode to the call of on_message, which runs
\* up to its first await (insert_msg)
polling_iter_decode(recv_data) ==
    IF ~MsgRequest_decodable(recv_data)
      THEN /\ request' = NoRequest
           /\ start_polling(PacketLoadError, NoExc)
      ELSE /\ request' = MsgRequest_decode(recv_data)
           /\ IF request'.msg_uuid = ""
                THEN start_polling(NoMessageIdError, NoExc)
                ELSE /\ pc' = "insert_msg"
                     /\ exc' = exc
                     /\ history' = Trim(history)

\* brpop_bytes returned (recv_key, recv_data): the asserts, then the decoding
brpop_packet ==
    /\ pc = "brpop"
    /\ first_pop_due
    /\ iter < MaxIter
    /\ iter' = iter + 1
    /\ polling_iter_locals
    /\ \E recv_key \in {encode_path(ModulePath), encode_path(ForeignPath)},
          recv_data \in Queued(iter') :
         /\ packet' = <<recv_key, recv_data>>
         /\ IF recv_key # encode_path(ModulePath)
              THEN /\ request' = NoRequest
                   /\ start_polling(KeyCheckError, NoExc)
              ELSE polling_iter_decode(recv_data)
    /\ UNCHANGED <<life, redis_expire_medium, regvars>>

(***************************************************************************)
(* on_message: upload_msg_request                                          *)
(***************************************************************************)
\* (variant: a failed insert of the message record is ignored)
insert_msg_unchecked ==
    /\ pc = "insert_msg"
    /\ UNCHANGED <<packet, request, response>>
    /\ \E out \in AwaitOutcomes :
         /\ ops' = Append(ops, Op("insert_msg", "request", 0, request.msg_uuid, out))
         /\ upload_msg_files(1, "request", request.files)
    /\ UNCHANGED <<life, redis_expire_medium, regvars, iter, runs, pushed>>

\* _db.insert_msg completes; on success upload_msg_files(request.files) starts
insert_msg ==
    /\ pc = "insert_msg"
    /\ UNCHANGED <<packet, request, response>>
    /\ \E out \in AwaitOutcomes :
         IF out = NoExc
           THEN /\ ops' = Append(ops, Op("insert_msg", "request", 0, request.msg_uuid, out))
                /\ upload_msg_files(1, "request", request.files)
           ELSE /\ ops' = Append(ops, Op("insert_msg", "request", 0, request.msg_uuid, out))
                /\ polling_iter_except(out)
    /\ UNCHANGED <<life, redis_expire_medium, regvars, iter, runs, pushed>>

(***************************************************************************)
(* upload_msg_file: the three awaits for one file                          *)
(***************************************************************************)
\* (variant: a failed upload is ignored and the metadata insert goes ahead)
upload_data_unchecked ==
    /\ pc = "upload_data"
    /\ UNCHANGED <<packet, request, response>>
    /\ \E out \in AwaitOutcomes :
         /\ ops' = Append(ops, Op("upload_data", flow, fidx, None, out))
         /\ pc' = "insert_file"
         /\ UNCHANGED <<exc, history, reply, caught, flow, fidx>>
    /\ UNCHANGED <<life, redis_expire_medium, regvars, iter, runs, pushed>>

\* _s3.upload_data completes
upload_data ==
    /\ pc = "upload_data"
    /\ UNCHANGED <<packet, request, response>>
    /\ \E out \in AwaitOutcomes :
         IF out = NoExc
           THEN /\ ops' = Append(ops, Op("upload_data", flow, fidx, None, out))
                /\ pc' = "insert_file"
                /\ UNCHANGED <<exc, history, reply, caught, flow, fidx>>
           ELSE /\ ops' = Append(ops, Op("upload_data", flow, fidx, None, out))
                /\ polling_iter_except(out)
    /\ UNCHANGED <<life, redis_expire_medium, regvars, iter, runs, pushed>>

\* _db.insert_file completes
insert_file ==
    /\ pc = "insert_file"
    /\ UNCHANGED <<packet, request, response>>
    /\ \E out \in AwaitOutcomes :
         IF out = NoExc
           THEN /\ ops' = Append(ops, Op("insert_file", flow, fidx, None, out))
                /\ pc' = "insert_msg2file"
                /\ UNCHANGED <<exc, history, reply, caught, flow, fidx>>
           ELSE /\ ops' = Append(ops, Op("insert_file", flow, fidx, None, out))
                /\ polling_iter_except(out)
    /\ UNCHANGED <<life, redis_expire_medium, regvars, iter, runs, pushed>>

\* _db.insert_msg2file completes; on success upload_msg_files goes on to the
\* next file, or returns into on_message
insert_msg2file ==
    /\ pc = "insert_msg2file"
    /\ UNCHANGED <<packet, request, response>>
    /\ \E out \in AwaitOutcomes :
         IF out = NoExc
           THEN /\ ops' = Append(ops, Op("insert_msg2file", flow, fidx, FlowMsg.msg_uuid, out))
                /\ upload_msg_files(fidx + 1, flow, FlowMsg.files)
           ELSE /\ ops' = Append(ops, Op("insert_msg2file", flow, fidx, FlowMsg.msg_uuid, out))
                /\ polling_iter_except(out)
    /\ UNCHANGED <<life, redis_expire_medium, regvars, iter, runs, pushed>>

(***************************************************************************)
(* on_message: Module.run and upload_msg_response                          *)
(***************************************************************************)
\* _module.run returns a response, or raises and is wrapped
run ==
    /\ pc = "run"
    /\ runs' = runs + 1
    /\ UNCHANGED <<packet, request>>
    /\ \/ \E r \in HandlerResponses :
            /\ response' = r
            /\ pc' = "insert_reply"
            /\ UNCHANGED <<exc, history, reply, caught, flow, fidx>>
       \/ \E e \in AwaitFaults :
            /\ response' = response
            /\ polling_iter_except(CommandRuntimeError)
    /\ UNCHANGED <<life, redis_expire_medium, regvars, iter, ops, pushed>>

\* (variant: a failed insert of the reply record is ignored)
insert_reply_unchecked ==
    /\ pc = "insert_reply"
    /\ UNCHANGED <<packet, request, response>>
    /\ \E out \in AwaitOutcomes :
         /\ ops' = Append(ops, Op("insert_reply", "response", 0, response.msg_uuid, out))
         /\ upload_msg_files(1, "response", response.files)
    /\ UNCHANGED <<life, redis_expire_medium, regvars, iter, runs, pushed>>

\* _db.insert_reply completes; on success upload_msg_files(response.files) starts
insert_reply ==
    /\ pc = "insert_reply"
    /\ UNCHANGED <<packet, request, response>>
    /\ \E out \in AwaitOutcomes :
         IF out = NoExc
           THEN /\ ops' = Append(ops, Op("insert_reply", "response", 0, response.msg_uuid, out))
                /\ upload_msg_files(1, "response", response.files)
           ELSE /\ ops' = Append(ops, Op("insert_reply", "response", 0, response.msg_uuid, out))
                /\ polling_iter_except(out)
    /\ UNCHANGED <<life, redis_expire_medium, regvars, iter, runs, pushed>>

(***************************************************************************)
(* polling_iter: the lpush_bytes await completes                           *)
(***************************************************************************)
\* (variant: the reply path is computed for the first request and kept)
lpush_firstpath ==
    /\ pc = "lpush"
    /\ UNCHANGED <<packet, request, response>>
    /\ \E out \in AwaitOutcomes :
         IF out = NoExc
           THEN /\ pushed' = Append(pushed,
                       [path |-> get_response_path(MsgRequest(QueueUuid(1), <<>>)),
                        response |-> reply,
                        packet |-> MsgResponse_encode(reply),
                        expire |-> floor(redis_expire_medium)])
                /\ start_polling(NoExc, caught)
           ELSE /\ pushed' = pushed
                /\ start_polling(out, caught)
    /\ UNCHANGED <<life, redis_expire_medium, regvars, iter, reply, caught,
                   flow, fidx, ops, runs>>

lpush ==
    /\ pc = "lpush"
    /\ UNCHANGED <<packet, request, response>>
    /\ \E out \in AwaitOutcomes :
         IF out = NoExc
           THEN /\ pushed' = Append(pushed,
                       [path |-> get_response_path(request),
                        response |-> reply,
                        packet |-> MsgResponse_encode(reply),
                        expire |-> floor(redis_expire_medium)])
                /\ start_polling(NoExc, caught)
           ELSE /\ pushed' = pushed
                /\ start_polling(out, caught)
    /\ UNCHANGED <<life, redis_expire_medium, regvars, iter, reply, caught,
                   flow, fidx, ops, runs>>

(***************************************************************************)
(* main(): the finally block, close_module and close_common_context        *)
(***************************************************************************)
\* polling_iter's frame is gone by then: its locals and the records of the
\* latest call are dropped
CloseStep(at, name, next) ==
    /\ pc = at
    /\ \E out \in AwaitOutcomes :
         IF out = NoExc
           THEN /\ life' = Append(life, name)
                /\ pc' = next
                /\ exc' = exc
           ELSE /\ life' = life
                /\ pc' = "done"
                /\ exc' = out
    /\ polling_iter_locals
    /\ packet' = None
    /\ request' = NoRequest
    /\ UNCHANGED <<redis_expire_medium, regvars, iter, history>>

close_module == CloseStep("module_close", "module.close", "s3_close")
s3_close == CloseStep("s3_close", "s3.close", "db_close")
db_close == CloseStep("db_close", "db.close", "mq_close")
mq_close == CloseStep("mq_close", "mq.close", "done")

(***************************************************************************)
(* Subscription callbacks                                                  *)
(***************************************************************************)
MqOpen == \E i \in 1..Len(life) : life[i] = "mq.open"
MqClosed == \E i \in 1..Len(life) : life[i] = "mq.close"

publish_register_worker ==
    pubs' = Append(pubs, [channel |-> MQ_REGISTER_WORKER_PATH,
                          data |-> register_packet])

\* (variant: the callback only logs, it publishes nothing)
on_mq_connect_silent ==
    /\ on_mq_connect_due
    /\ connected' = TRUE
    /\ UNCHANGED <<lifevars, redis_expire_medium, register_packet, subs,
                   channel, pubs, itervars>>

on_mq_connect ==
    /\ on_mq_connect_due
    /\ connected' = TRUE
    /\ publish_register_worker
    /\ UNCHANGED <<lifevars, redis_expire_medium, register_packet, subs,
                   channel, itervars>>

SubscribePaths == {encode_path(MQ_BROADCAST_PATH),
                   encode_path(MQ_REGISTER_WORKER_REQUEST_PATH)}

\* (variant: the callback hands the message to the handler as well)
on_mq_subscribe_dispatch ==
    /\ connected /\ ~MqClosed /\ pc # "done"
    /\ subs < MaxSubs
    /\ subs' = subs + 1
    /\ \E ch \in SubscribePaths :
         /\ channel' = ch
         /\ IF encode_path(MQ_REGISTER_WORKER_REQUEST_PATH) = channel'
              THEN publish_register_worker
              ELSE pubs' = pubs
    /\ runs' = runs + 1
    /\ UNCHANGED <<lifevars, redis_expire_medium, register_packet, connected,
                   iter, history, packet, request, response, reply, caught,
                   flow, fidx, ops, pushed>>

\* (variant: the channel is not compared, every message re-publishes)
on_mq_subscribe_any ==
    /\ connected /\ ~MqClosed /\ pc # "done"
    /\ subs < MaxSubs
    /\ subs' = subs + 1
    /\ \E ch \in SubscribePaths :
         /\ channel' = ch
         /\ publish_register_worker
    /\ UNCHANGED <<lifevars, redis_expire_medium, register_packet, connected,
                   itervars>>

on_mq_subscribe ==
    /\ connected /\ ~MqClosed /\ pc # "done"
    /\ subs < MaxSubs
    /\ subs' = subs + 1
    /\ \E ch \in SubscribePaths :
         /\ channel' = ch
         /\ IF encode_path(MQ_REGISTER_WORKER_REQUEST_PATH) = channel'
              THEN publish_register_worker
              ELSE pubs' = pubs
    /\ UNCHANGED <<lifevars, redis_expire_medium, register_packet, connected,
                   itervars>>

Next ==
    \/ mq_open \/ db_open \/ s3_open \/ open_module
    \/ brpop_raise \/ brpop_timeout \/ brpop_packet
    \/ insert_msg \/ upload_data \/ insert_file \/ insert_msg2file
    \/ run \/ insert_reply \/ lpush
    \/ close_module \/ s3_close \/ db_close \/ mq_close
    \/ on_mq_connect \/ on_mq_subscribe

Spec == Init /\ [][Next]_vars

(***************************************************************************)
(* Vocabulary of the properties                                            *)
(***************************************************************************)
\* the latest polling_iter call has ended (by return or by raising)
Ended == iter > 0 /\ Len(history) = iter
\* ... and it ended by returning
Returned == Ended /\ history[iter].end = "none"
\* ... and it ended because lpush_bytes raised
PushRaised ==
    /\ Ended
    /\ history[iter].at = "lpush"
    /\ history[iter].end \in {e.kind : e \in AwaitFaults}
\* start_polling was left: main() is in its finally block or past it
LoopStopped == pc \in {"module_close", "s3_close", "db_close", "mq_close", "done"}
\* the latest call decoded a Request with a msg_uuid and entered on_message
Dispatched == request # NoRequest /\ request.msg_uuid # ""
\* Module.run was called in the latest call and raised
RunRaised == runs = 1 /\ response = NoResponse
\* Module.run returned a response whose msg_uuid is not the request's
Mismatch == response.src = "handler" /\ response.msg_uuid # request.msg_uuid
\* call i was a dispatch that went through without a fault and replied
NormalCall(i) ==
    /\ history[i].end = "none"
    /\ history[i].at = "lpush"
    /\ ~history[i].faulted
\* the latest call persisted the request, ran the handler and pushed its reply
ProcessedNormally ==
    /\ Returned
    /\ NormalCall(iter)
    /\ \E i \in 1..Len(ops) : ops[i].op = "insert_msg" /\ ops[i].ok
    /\ \E i \in 1..Len(ops) : ops[i].op = "insert_reply" /\ ops[i].ok
    /\ runs = 1
    /\ Len(pushed) = 1
    /\ pushed[1].response = response
    /\ pc = "brpop"

(***************************************************************************)
(* C1: every Response polling_iter pushes onto a reply queue carries the   *)
(* msg_uuid of the Request popped in the same call, on the success path    *)
(* (the handler's response) and on the error path (the response the        *)
(* runtime builds after a fault); so does the response about to be pushed. *)
(***************************************************************************)
C1_ReplyCarriesRequestUuid ==
    /\ \A i \in 1..Len(pushed) :
         /\ pushed[i].response.msg_uuid = request.msg_uuid
         /\ pushed[i].response.src \in {"handler", "runtime"}
    /\ pc = "lpush" => reply.msg_uuid = request.msg_uuid

\* an error-path reply pushed after an earlier success-path reply
C1_Witness ==
    /\ Len(pushed) = 1
    /\ caught # NoExc
    /\ \E i \in 1..Len(history) : i < iter /\ NormalCall(i)

(***************************************************************************)
(* C2: when Module.run returns a Response whose msg_uuid differs from the  *)
(* Request's, the mismatch fault is propagated out of the call: it is not  *)
(* turned into a Response carrying the Request's msg_uuid and nothing is   *)
(* pushed to the reply queue for that request.                             *)
(***************************************************************************)
C2_MismatchPropagates ==
    Mismatch =>
        /\ reply.src # "runtime"
        /\ pushed = <<>>
        /\ (Ended /\ caught = InvalidMessageIdError
              => history[iter].end = "InvalidMessageIdError")

(***************************************************************************)
(* C3: if Module.run raises for a decoded Request with a msg_uuid, the     *)
(* call goes on to the push with a Response that has a non-empty error and *)
(* the Request's msg_uuid; it ends only by the outcome of that push, and   *)
(* when the push succeeded exactly one Response was pushed, that one, to   *)
(* request.get_response_path().                                            *)
(***************************************************************************)
C3_RunFaultBecomesReply ==
    RunRaised =>
        /\ Dispatched
        /\ reply.msg_uuid = request.msg_uuid
        /\ reply.error \notin {None, ""}
        /\ MsgResponse_encodable(reply)
        /\ ~Ended => pc = "lpush" /\ pushed = <<>>
        /\ Ended => Returned \/ PushRaised
        /\ PushRaised => pushed = <<>>
        /\ Returned =>
             /\ Len(pushed) = 1
             /\ pushed[1].path = get_response_path(request)
             /\ pushed[1].response = reply
             /\ pushed[1].packet = MsgResponse_encode(reply)
             /\ pushed[1].response.error \notin {None, ""}
             /\ pushed[1].response.msg_uuid = request.msg_uuid

C3_Witness == RunRaised /\ Returned /\ Len(pushed) = 1

(***************************************************************************)
(* C4: a fault raised by Module.run or by the persistence of the request   *)
(* or the response never ends start_polling: a call in which on_message    *)
(* faulted reaches the push and ends only by the outcome of that push, and *)
(* when the push succeeded the loop is at the blocking pop again.          *)
(***************************************************************************)
C4_DispatchFaultsKeepLoop ==
    /\ \A i \in 1..Len(history) :
         history[i].faulted => history[i].at = "lpush"
    /\ (caught # NoExc /\ ~Ended) => pc = "lpush"
    /\ (caught # NoExc /\ Returned) => pc = "brpop" /\ exc = NoExc
    /\ (caught # NoExc /\ Ended) => Returned \/ PushRaised

\* faulting requests only, then a request that is persisted, executed and
\* replied
C4_Witness ==
    /\ iter >= 2
    /\ \A i \in 1..(iter - 1) : history[i].faulted /\ history[i].end = "none"
    /\ ProcessedNormally

(***************************************************************************)
(* C5: a blocking pop that returns empty on timeout leaves the runtime     *)
(* waiting at the blocking pop with the loop running, and in the call that *)
(* timed out no record was inserted, no object uploaded, the handler was   *)
(* not invoked and nothing was pushed; this holds for every such call, so  *)
(* for N of them in a row.                                                 *)
(***************************************************************************)
C5_TimeoutsKeepWaiting ==
    /\ \A i \in 1..Len(history) :
         history[i].end = "PollingTimeoutError"
            => history[i].at = "brpop" /\ ~history[i].faulted
    /\ (Ended /\ packet = None /\ ~LoopStopped) =>
         /\ history[iter].end = "PollingTimeoutError"
         /\ pc = "brpop"
         /\ exc = NoExc
         /\ ops = <<>> /\ runs = 0 /\ pushed = <<>>
         /\ request = NoRequest
    /\ (Ended /\ history[iter].end = "PollingTimeoutError") =>
         /\ pc = "brpop" /\ exc = NoExc
         /\ ops = <<>> /\ runs = 0 /\ pushed = <<>>

\* a timeout, then a valid request processed normally
C5_Witness ==
    /\ iter >= 2
    /\ \A i \in 1..(iter - 1) : history[i].end = "PollingTimeoutError"
    /\ ProcessedNormally

(***************************************************************************)
(* C6: a popped payload that cannot be decoded into a Request is dropped:  *)
(* the call ends with the decode fault, nothing is persisted, the handler  *)
(* is not invoked, nothing is pushed to any queue, and the loop is at the  *)
(* blocking pop again.                                                     *)
(***************************************************************************)
Undecodable ==
    /\ packet # None
    /\ packet[1] = encode_path(ModulePath)
    /\ ~MsgRequest_decodable(packet[2])

C6_UndecodableDropped ==
    Undecodable =>
        /\ Ended
        /\ history[iter].end = "PacketLoadError"
        /\ pc = "brpop"
        /\ exc = NoExc
        /\ ops = <<>> /\ runs = 0 /\ pushed = <<>>
        /\ request = NoRequest /\ reply = NoResponse

\* the call after the one that dropped a payload processed a valid request
C6_DroppedThenProcessed ==
    /\ iter >= 2
    /\ history[iter - 1].end = "PacketLoadError"
    /\ ProcessedNormally

(***************************************************************************)
(* C7: a decoded Request whose msg_uuid is empty is dropped: nothing is    *)
(* persisted, Module.run is not invoked, no Response is built or pushed,   *)
(* and the loop is at the blocking pop again.                              *)
(***************************************************************************)
C7_NoUuidDropped ==
    (request # NoRequest /\ request.msg_uuid = "") =>
        /\ Ended
        /\ history[iter].end = "NoMessageIdError"
        /\ pc = "brpop"
        /\ exc = NoExc
        /\ ops = <<>> /\ runs = 0 /\ pushed = <<>>
        /\ reply = NoResponse

\* a Request without msg_uuid that carries a file was dropped
C7_Witness ==
    /\ request # NoRequest
    /\ request.msg_uuid = ""
    /\ Len(request.files) > 0
    /\ Ended

(***************************************************************************)
(* C8: each message delivered to on_mq_subscribe on the registration-      *)
(* request channel adds exactly one publication, on the registration       *)
(* channel and equal to the startup publication; a message on the other    *)
(* subscribed channel adds none.                                           *)
(***************************************************************************)
C8_Reregistration ==
    [][subs' = subs + 1 =>
         IF channel' = encode_path(MQ_REGISTER_WORKER_REQUEST_PATH)
           THEN /\ pubs # <<>>
                /\ pubs[1].channel = MQ_REGISTER_WORKER_PATH
                /\ pubs[1].data = register_packet
                /\ pubs' = Append(pubs, pubs[1])
           ELSE pubs' = pubs]_vars

\* two messages, the latest a registration request, the other a broadcast:
\* the startup publication and one more
C8_Witness ==
    /\ subs = 2
    /\ channel = encode_path(MQ_REGISTER_WORKER_REQUEST_PATH)
    /\ Len(pubs) = 2

(***************************************************************************)
(* C9: for every attached file of a Request or Response the calls go       *)
(* object upload, file metadata insert, link insert; the metadata insert   *)
(* is attempted only right after that file's successful upload, the link   *)
(* insert only right after its successful metadata insert, and after a     *)
(* failed upload there is no metadata or link call for that file or for a  *)
(* later file of the same message.                                         *)
(***************************************************************************)
SameFile(a, b) == a.flow = b.flow /\ a.idx = b.idx
Follows(j, op) ==
    /\ j > 1
    /\ ops[j - 1].op = op
    /\ ops[j - 1].ok
    /\ SameFile(ops[j - 1], ops[j])
LastIs(op) ==
    /\ ops # <<>>
    /\ ops[Len(ops)].op = op
    /\ ops[Len(ops)].ok
    /\ ops[Len(ops)].flow = flow
    /\ ops[Len(ops)].idx = fidx

C9_UploadBeforeRecords ==
    /\ \A j \in 1..Len(ops) :
         /\ ops[j].op = "insert_file" => Follows(j, "upload_data")
         /\ ops[j].op = "insert_msg2file" => Follows(j, "insert_file")
    /\ pc = "insert_file" => LastIs("upload_data")
    /\ pc = "insert_msg2file" => LastIs("insert_file")
    /\ \A i, j \in 1..Len(ops) :
         (/\ ops[i].op = "upload_data"
          /\ ~ops[i].ok
          /\ ops[j].flow = ops[i].flow
          /\ ops[j].idx >= ops[i].idx)
            => ops[j].op \notin {"insert_file", "insert_msg2file"}

\* the request's file is stored; the upload of the first of the response's
\* two files failed
C9_Witness ==
    /\ \E j \in 1..Len(ops) :
         ops[j].op = "insert_msg2file" /\ ops[j].flow = "request" /\ ops[j].ok
    /\ \E i \in 1..Len(ops) :
         /\ ops[i].op = "upload_data"
         /\ ops[i].flow = "response"
         /\ ops[i].idx = 1
         /\ ~ops[i].ok
    /\ Len(response.files) = 2
    /\ Ended

(***************************************************************************)
(* C10: every popped payload that decodes to a Request with a msg_uuid     *)
(* results in a well-formed Response (the handler's, or one with error     *)
(* set) pushed to that Request's reply path; the only popped payloads for  *)
(* which nothing is pushed are undecodable ones and ones without msg_uuid. *)
(* Stated of the call once it has ended, and read with a broker that       *)
(* accepts the push.                                                       *)
(***************************************************************************)
WellFormed(p) ==
    /\ p.path = get_response_path(request)
    /\ p.packet = MsgResponse_encode(p.response)
    /\ p.response.msg_uuid = request.msg_uuid
    /\ IF caught = NoExc
         THEN p.response = response
         ELSE /\ p.response.src = "runtime"
              /\ p.response.error # None
              /\ p.response.error = caught.msg

C10_AlwaysReplied ==
    /\ (Ended /\ Dispatched /\ ~PushRaised)
         => Len(pushed) = 1 /\ WellFormed(pushed[1])
    /\ (Ended /\ packet # None /\ packet[1] = encode_path(ModulePath)
          /\ pushed = <<>> /\ ~PushRaised)
         => Undecodable \/ request.msg_uuid = ""

(***************************************************************************)
(* C10 as amended: a call that decoded a Request with a msg_uuid ends in   *)
(* one of three ways: it returns, and then exactly one well-formed         *)
(* Response was pushed to the Request's reply path; or the Response could  *)
(* not be encoded; or lpush_bytes raised; in the last two nothing was      *)
(* pushed.  Nothing is pushed before the end of the call, nor for a        *)
(* payload that is undecodable or has no msg_uuid.                         *)
(***************************************************************************)
C10_RepliedUnlessEncodeOrPushFails ==
    /\ (Ended /\ Dispatched) =>
         \/ /\ Returned
            /\ Len(pushed) = 1
            /\ WellFormed(pushed[1])
         \/ /\ PushRaised
            /\ pushed = <<>>
         \/ /\ history[iter].end = "PacketDumpError"
            /\ ~MsgResponse_encodable(reply)
            /\ pushed = <<>>
    /\ ~Ended => pushed = <<>>
    /\ ~Dispatched => pushed = <<>>

\* a persistence fault answered with an error Response
C10_Witness ==
    /\ Returned
    /\ Dispatched
    /\ caught = CollaboratorError
    /\ Len(pushed) = 1

(***************************************************************************)
(* C11: when encoding the Response fails, the call ends with the encode    *)
(* fault (PacketDumpError) raised out of polling_iter, nothing is pushed   *)
(* in that call, and start_polling does not take the fault: the loop is    *)
(* left with it and main() is in its finally block.                        *)
(***************************************************************************)
EncodeFailed == reply # NoResponse /\ ~MsgResponse_encodable(reply)

UnclassifiedKinds == {"CollaboratorError", "CancelledError", "AssertionError"}

C12_UnclassifiedFaultStopsLoop ==
    /\ \A i \in 1..Len(history) :
         history[i].end \in UnclassifiedKinds
            => /\ i = Len(history)
               /\ LoopStopped
               /\ history[i].at \in {"brpop", "lpush"}
    /\ (Ended /\ history[iter].end \in UnclassifiedKinds /\ pc = "module_close")
         => exc.kind = history[iter].end
    /\ (Ended /\ history[iter].end \in UnclassifiedKinds) => pc # "brpop"

\* the broker failed in the push of a handler's response
C12_Witness ==
    /\ PushRaised
    /\ history[iter].end = "CollaboratorError"
    /\ reply.src = "handler"
    /\ pc = "module_close"
    /\ exc = CollaboratorError

(***************************************************************************)
(* C13: whenever the poll loop is left after the connections and the       *)
(* handler were opened, teardown closes every acquired resource exactly    *)
(* once in reverse order of acquisition - handler, object store, database, *)
(* broker - also when one of the close steps fails.  Stated of main() once *)
(* it is over; life holds the open and close calls that completed.         *)
(***************************************************************************)
Opens == <<"mq.open", "db.open", "s3.open", "module.open">>
Closes == <<"module.close", "s3.close", "db.close", "mq.close">>
InLife(name) == \E i \in 1..Len(life) : life[i] = name

C13_TeardownClosesAll ==
    (pc = "done" /\ InLife("module.open")) => life = Opens \o Closes

(***************************************************************************)
(* C14: a cancellation of the main task delivered at a suspension point of *)
(* the loop - the blocking pop, an object upload, a database insert, the   *)
(* handler's run - stops the loop; it is never caught as the fault of one  *)
(* request and answered with an error Response.                            *)
(***************************************************************************)
C14_CancellationStopsLoop ==
    caught = CancelledError =>
        /\ reply.src # "runtime"
        /\ pushed = <<>>
        /\ LoopStopped

(***************************************************************************)
(* C15: every call of the handler's open, also one that fails, is followed *)
(* by a call of the handler's close, and every connection opened before a  *)
(* startup failure is closed: main() never ends with something opened and  *)
(* not closed.                                                             *)
(***************************************************************************)
Resources == {<<"mq.open", "mq.close">>, <<"db.open", "db.close">>,
              <<"s3.open", "s3.close">>, <<"module.open", "module.close">>}

C15_OpenPairedWithClose ==
    pc = "done" =>
        /\ \A r \in Resources : InLife(r[1]) => InLife(r[2])
        /\ InLife("s3.open") => InLife("module.close")

(***************************************************************************)
(* C16: a file with absent content is a fault, not a skipped file:         *)
(* upload_msg_file raises before any upload or insert for that file, no    *)
(* later file of the message is processed, and the fault is caught in      *)
(* polling_iter as the fault of this request, which is answered with an    *)
(* error Response.                                                         *)
(***************************************************************************)
FilesOf(fl) == IF fl = "request" THEN request.files ELSE response.files
\* file i of the message is the first one without content
FirstAbsent(files, i) ==
    /\ i \in 1..Len(files)
    /\ ~files[i]
    /\ \A j \in 1..(i - 1) : files[j]
\* upload_msg_files has come to file i of the message of flow fl
CameTo(fl, i) ==
    \E k \in 1..Len(ops) :
        /\ ops[k].ok
        /\ ops[k].flow = fl
        /\ IF i = 1 THEN ops[k].idx = 0
                    ELSE ops[k].op = "insert_msg2file" /\ ops[k].idx = i - 1
EmptyFileReply ==
    MsgResponse(request.msg_uuid, "Empty file content", <<>>, "runtime", TRUE)

C16_AbsentContentIsFault ==
    /\ \A k \in 1..Len(ops) :
         ops[k].idx > 0 => \A j \in 1..ops[k].idx : FilesOf(ops[k].flow)[j]
    /\ \A fl \in {"request", "response"} :
         \A i \in 1..Len(FilesOf(fl)) :
            (FirstAbsent(FilesOf(fl), i) /\ CameTo(fl, i)) =>
                /\ caught = BufferError
                /\ reply = EmptyFileReply
                /\ pc \notin {"upload_data", "insert_file", "insert_msg2file",
                              "run", "insert_reply"}
                /\ Returned => /\ Len(pushed) = 1
                               /\ pushed[1].response = EmptyFileReply
                               /\ pushed[1].path = get_response_path(request)
                               /\ pc = "brpop"

C16_Witness ==
    /\ Returned
    /\ caught = BufferError
    /\ request.files = <<TRUE, FALSE>>
    /\ CameTo("request", 2)
    /\ Len(pushed) = 1

(***************************************************************************)
(* C17: every Response pushed to a reply queue, the handler's or an error  *)
(* Response built by the runtime, was persisted earlier in the same call:  *)
(* its reply record inserted and its files uploaded and recorded.          *)
(* This is the claim as stated; the runtime-built Response refutes it.     *)
(***************************************************************************)
Did(op, fl, i) ==
    \E k \in 1..Len(ops) :
        ops[k].op = op /\ ops[k].flow = fl /\ ops[k].idx = i /\ ops[k].ok
\* file i of the message of flow fl is uploaded, recorded and linked
FileStored(fl, i) ==
    /\ Did("upload_data", fl, i)
    /\ Did("insert_file", fl, i)
    /\ Did("insert_msg2file", fl, i)
\* r is the Response that went through upload_msg_response, completely
Persisted(r) ==
    /\ r = response
    /\ Did("insert_reply", "response", 0)
    /\ \A i \in 1..Len(r.files) : FileStored("response", i)

C17_EveryReplyPersisted ==
    \A k \in 1..Len(pushed) : Persisted(pushed[k].response)

(***************************************************************************)
(* C17, amended: a pushed Response that the handler returned was persisted *)
(* before the push; a pushed Response that the runtime built for a fault   *)
(* was not: it is not the Response that upload_msg_response saw, and when  *)
(* the fault came before upload_msg_response no reply record exists at     *)
(* all.                                                                    *)
(***************************************************************************)
C17_HandlerReplyPersisted ==
    \A k \in 1..Len(pushed) :
        LET r == pushed[k].response IN
        /\ r.src \in {"handler", "runtime"}
        /\ r.src = "handler" => Persisted(r) /\ caught = NoExc
        /\ r.src = "runtime" =>
             /\ ~Persisted(r)
             /\ caught # NoExc
             /\ runs = 0 => \A j \in 1..Len(ops) : ops[j].op # "insert_reply"

C17_Witness ==
    /\ Returned
    /\ Len(pushed) = 1
    /\ pushed[1].response.src = "handler"
    /\ Len(pushed[1].response.files) = 2
    /\ Persisted(pushed[1].response)

(***************************************************************************)
(* C18: Module.run is called at most once per popped payload, and only     *)
(* after the Request's message record and all of its files were persisted; *)
(* when persisting the Request fails, run is not called, no reply record   *)
(* is inserted, and an error Response with the Request's msg_uuid is what  *)
(* is pushed.                                                              *)
(***************************************************************************)
RequestPersisted ==
    /\ Did("insert_msg", "request", 0)
    /\ \A i \in 1..Len(request.files) : FileStored("request", i)
\* an operation of upload_msg_request failed, or a request file had no content
RequestPersistFailed ==
    \/ \E k \in 1..Len(ops) : ops[k].flow = "request" /\ ~ops[k].ok
    \/ \E i \in 1..Len(request.files) :
          FirstAbsent(request.files, i) /\ CameTo("request", i)

C18_RunAfterRequestPersisted ==
    /\ runs \in {0, 1}
    /\ (runs = 1 \/ pc = "run") => RequestPersisted /\ ~RequestPersistFailed
    /\ RequestPersistFailed =>
         /\ runs = 0
         /\ pc # "run"
         /\ response = NoResponse
         /\ \A k \in 1..Len(ops) : ops[k].flow # "response"
         /\ caught # NoExc
         /\ reply = MsgResponse(request.msg_uuid, caught.msg, <<>>, "runtime", TRUE)
         /\ \A k \in 1..Len(pushed) : pushed[k].response = reply
         /\ Returned => Len(pushed) = 1

C18_Witness ==
    /\ Returned
    /\ RequestPersistFailed
    /\ Did("insert_msg", "request", 0)
    /\ FileStored("request", 1)
    /\ ~ops[Len(ops)].ok
    /\ ops[Len(ops)].idx = 2
    /\ runs = 0
    /\ Len(pushed) = 1

(***************************************************************************)
(* C19: at startup the first publication of the worker's descriptor on the *)
(* registration channel comes after the broker and storage connections are *)
(* open and the handler's open has completed, and before the first         *)
(* blocking pop of the poll loop completes.                                *)
(***************************************************************************)
Registration ==
    [channel |-> MQ_REGISTER_WORKER_PATH, data |-> register_packet]

C20_CallbackFrame ==
    [][subs' # subs =>
         /\ UNCHANGED <<lifevars, redis_expire_medium, register_packet,
                        connected, itervars>>
         /\ \/ pubs' = pubs
            \/ pubs' = Append(pubs, Registration)]_vars

\* two callbacks were delivered and a request is in flight, between the
\* upload of a file and its metadata insert
C20_Witness ==
    /\ subs = 2
    /\ Dispatched
    /\ pc = "insert_file"
    /\ runs = 0
    /\ pushed = <<>>

(***************************************************************************)
(* C21: every push to a reply queue goes to get_response_path() of the     *)
(* Request popped in the same call of polling_iter, with the expiry        *)
(* floor(redis_expire_medium); one push at most is made per popped         *)
(* payload, and none goes to the reply path of the request of an earlier   *)
(* call.                                                                   *)
(***************************************************************************)
\* the reply path of the request that call i dispatched, if it dispatched one
EarlierPaths ==
    {get_response_path(MsgRequest(history[i].msg_uuid, <<>>)) :
        i \in {j \in 1..Len(history) :
                 j < iter /\ history[j].msg_uuid \notin {None, ""}}}

C21_PushTargetsOwnRequest ==
    /\ Len(pushed) <= 1
    /\ pushed # <<>> => Returned /\ Dispatched
    /\ \A k \in 1..Len(pushed) :
         /\ pushed[k].path = get_response_path(request)
         /\ pushed[k].expire = floor(redis_expire_medium)
         /\ pushed[k].expire * 10 <= redis_expire_medium
         /\ redis_expire_medium < (pushed[k].expire + 1) * 10
         /\ pushed[k].path \notin EarlierPaths

\* the second call replies to its own request after the first call replied
\* to another one
C21_Witness ==
    /\ iter = 2
    /\ Returned
    /\ Len(pushed) = 1
    /\ history[1].end = "none"
    /\ history[1].msg_uuid \notin {None, "", request.msg_uuid}
    /\ EarlierPaths # {}
    /\ pushed[1].path = get_response_path(request)

(***************************************************************************)
(* C22: every reply record and every response-flow message-to-file link    *)
(* inserted during a call of polling_iter is keyed by the msg_uuid of the  *)
(* Request popped in that call; a handler Response with another msg_uuid   *)
(* is never persisted.                                                     *)
(***************************************************************************)
C22_RepliesKeyedByRequest ==
    \A k \in 1..Len(ops) :
        (/\ ops[k].ok
         /\ ops[k].flow = "response"
         /\ ops[k].op \in {"insert_reply", "insert_msg2file"})
            => ops[k].msg_uuid = request.msg_uuid

=============================================================================
